---- MODULE Spec2Model ----
(***************************************************************************)
(* The streaming clients of ttapi as one state machine.                    *)
(*                                                                         *)
(*   DXLinkStreamer  (src/ttapi/dxlink_streamer.py)  variant = "DXLINK"    *)
(*   DataStreamer    (src/ttapi/data_streamer.py)    variant = "LEGACY"    *)
(*                                                                         *)
(* Every asyncio task of a client is a process of the model: the connect   *)
(* (dispatch) task, the keep-alive / heartbeat tasks, the task awaiting    *)
(* create(), one caller task and the consumers iterating listen().  A step *)
(* of the model is the code a task runs between two awaits: asyncio runs   *)
(* one task at a time, so that code is atomic, and every                   *)
(* `await websocket.send_*` is a point where the task may be suspended.    *)
(* The server is the environment: every inbound frame is drawn from        *)
(* Frames, in any order.                                                   *)
(***************************************************************************)
EXTENDS Integers, Sequences, FiniteSets, TLC

VARIABLES
    variant,      \* which client class was instantiated
    connect,      \* position of self._connect_task
    toCreate,     \* events the AUTHORIZED handler has still to open a channel for
    authorized,   \* DXLINK: self._authorized; LEGACY: self.client_id is set
    channels,     \* DXLINK: self._channels
    keepAlive,    \* one status per keep-alive task ever created; the last one
                  \* is the one self._keep_alive_task / _heartbeat_task refers to
    counter,      \* LEGACY: self._counter
    out,          \* the frame written to the websocket last
    outBit,       \* flips at every write to the websocket
    queue,        \* self._queue
    queueCandle,  \* LEGACY: self._queue_candle
    createSt,     \* the task awaiting create()
    caller,       \* the caller task (subscribe / unsubscribe / close)
    consumer,     \* the consumers iterating listen() / listen_candle()
    lastYield,    \* the event an iterator yielded last
    ndata,        \* number of data frames taken by the dispatch loop
    dropped,      \* an inbound frame of a type with no case has been taken
    seenAuth,     \* an authorizing frame has been handled
    authPhase,    \* "none", "sent" (the token was sent), "failed" (the server
                  \* refused it explicitly before any authorization)
    closed,       \* close() has called cancel() on the tasks
    fn            \* a call of one of the functions of the library that are not
                  \* part of a streaming client: its arguments, position and result

vars == <<variant, connect, toCreate, authorized, channels, keepAlive, counter,
          out, outBit, queue, queueCandle, createSt, caller, consumer, lastYield,
          ndata, dropped, seenAuth, authPhase, closed, fn>>

\* The state of a streaming client
streamVars == <<variant, connect, toCreate, authorized, channels, keepAlive,
                counter, out, outBit, queue, queueCandle, createSt, caller,
                consumer, lastYield, ndata, dropped, seenAuth, authPhase, closed>>

----------------------------------------------------------------------------
(* Bounds of the model *)

MaxData == 2         \* data frames the server sends
MaxTasks == 2        \* keep-alive tasks created (authorizing frames handled)
MaxCalls == 1        \* operations the caller task starts
MaxId == 4           \* LEGACY: ids drawn from self._counter
MaxLen == 43         \* values of a positional array (two records of any class)
MaxPages == 3        \* pages the server holds, and the page a caller asks for

----------------------------------------------------------------------------
(* dxlink_streamer.py: channel ids and the event-to-channel map *)

QUOTE_CH == 1
PROFILE_CH == 3
SUMMARY_CH == 5
TRADE_CH == 7
GREEKS_CH == 9

ChannelIds == {QUOTE_CH, PROFILE_CH, SUMMARY_CH, TRADE_CH, GREEKS_CH}

\* EVENTTYPE_CHANNEL, with its keys in insertion order
EventKeys == <<"Quote", "Profile", "Summary", "Trade">>

EVENTTYPE_CHANNEL ==
    [e \in {"Quote", "Profile", "Summary", "Trade"} |->
        CASE e = "Quote" -> QUOTE_CH
          [] e = "Profile" -> PROFILE_CH
          [] e = "Summary" -> SUMMARY_CH
          [] e = "Trade" -> TRADE_CH]

\* self._channels after __init__: no channel has a 'state' key yet ("NONE"),
\* and the GREEKS channel has no 'symbols' key (modelled as the empty list)
InitChannels == [c \in ChannelIds |-> [state |-> "NONE", symbols |-> <<>>]]

----------------------------------------------------------------------------
(* Frames *)

\* An inbound frame.  DXLINK: type is message_rcv['type'], ok is
\* message_rcv['state'] == 'AUTHORIZED', channel is message_rcv['channel'],
\* kind is message_rcv['data'][0]['eventType'].  LEGACY: type is
\* message['channel'], ok is message['successful'], kind is the msg_type of
\* message['data'] and len the number of scalars it carries.
Frame(t, o, c, k, l) == [type |-> t, ok |-> o, channel |-> c, kind |-> k, len |-> l]

\* The frames the DXLink server may send: channel 2 is no key of
\* self._channels, "Greeks" is no case of _map_message, "Trade" is a case of
\* it, "KEEPALIVE" is no case of _on_message
DxFrames ==
    {Frame("SETUP", FALSE, 0, "", 0), Frame("KEEPALIVE", FALSE, 0, "", 0)}
    \cup {Frame("AUTH_STATE", o, 0, "", 0) : o \in BOOLEAN}
    \cup {Frame(t, FALSE, c, "", 0) :
            t \in {"CHANNEL_OPENED", "FEED_CONFIG"}, c \in {QUOTE_CH, 2}}
    \cup {Frame("FEED_DATA", FALSE, QUOTE_CH, k, 0) : k \in {"Quote", "Trade", "Greeks"}}

\* models.Channel
HANDSHAKE == "/meta/handshake"
HEARTBEAT == "/meta/connect"
SUBSCRIPTION == "/service/sub"
DATA == "/service/data"
CANDLE == "/service/timeSeriesData"

\* The messages the legacy server may send
LegacyFrames ==
    {Frame(HANDSHAKE, o, 0, "", 0) : o \in BOOLEAN}
    \cup {Frame(DATA, FALSE, 0, "Quote", 12), Frame(DATA, FALSE, 0, "Quote", 24),
          Frame(DATA, FALSE, 0, "Order", 1),
          Frame(CANDLE, FALSE, 0, "Candle", 17),
          Frame(SUBSCRIPTION, FALSE, 0, "", 0), Frame(HEARTBEAT, FALSE, 0, "", 0)}

\* An outbound frame and the task that wrote it
\* (data names the map a subscription frame carries: "add", "remove", ...)
Out(t, c, i, d, b) == [type |-> t, channel |-> c, id |-> i, data |-> d, by |-> b]

\* A queue that places a new item at the head: against it the order of
\* delivery (C10) fails
PutFront(q, item) == <<item>> \o q

\* Where queue.put (asyncio.Queue) places an item: at the tail
Put(q, item) == Append(q, item)

NoOut == Out("", 0, 0, "", "")

\* A write of frame f to the websocket
Write(f) == out' = f /\ outBit' = 1 - outBit

Consumers == {"c1", "c2"}
Symbols == <<"SPY">>

\* Iterators that all read the data queue: against them listen_candle takes
\* the messages of the data channel (C28)
QueueOfData(c) == "data"

\* The queue a consumer iterates: on a DataStreamer c1 iterates listen() and
\* c2 listen_candle(); on a DXLinkStreamer both iterate listen()
QueueOf(c) == IF variant = "LEGACY" /\ c = "c2" THEN "candle" ELSE "data"

NoYield == [kind |-> "", frame |-> 0, idx |-> 0]

----------------------------------------------------------------------------
(* Tasks *)

\* The connect task is alive: it is inside `async with session.ws_connect(...)`
Live == {"recv", "creating", "handshake", "spinning"}

\* The websocket accepts a frame: the connect task has not left the
\* `async with` block and the peer has not closed the connection
WsOpen == connect \in {"recv", "creating", "handshake", "cancelling"}

\* Task.cancel() on the connect task: a finished task is left alone, a live one
\* gets CancelledError at the await it is suspended in
Cancel(task) == IF task \in Live THEN "cancelling" ELSE task

\* Task.cancel() on the keep-alive task the client's attribute refers to
CancelKeepAlive(ka) ==
    IF ka = <<>> THEN ka
    ELSE [ka EXCEPT ![Len(ka)] = IF @ = "running" THEN "cancelled" ELSE @]

\* A _next_id that returns the counter as it was before its increment:
\* against it an id is not the value the call wrote (C25)
NextIdStale(c) == c

\* DataStreamer._next_id, lines 57-60, called with self._counter = c: the id
\* returned.  asyncio.Lock is free whenever a task asks for it (no task awaits
\* while holding it), so acquire, increment, release and return run without
\* a suspension
NextId(c) == c + 1

\* No function call is modelled
NoCall == [op |-> "none"]

\* The client after __init__
Fresh ==
    /\ connect = "init"
    /\ toCreate = <<>>
    /\ authorized = FALSE
    /\ channels = InitChannels
    /\ keepAlive = <<>>
    /\ counter = 0
    /\ out = NoOut
    /\ outBit = 0
    /\ queue = <<>>
    /\ queueCandle = <<>>
    /\ createSt = "pending"
    /\ caller = [pc |-> "idle", ev |-> "", rest |-> <<>>, calls |-> 0, res |-> "",
                waited |-> FALSE]
    /\ consumer = [c \in Consumers |-> [st |-> "waiting", pending |-> <<>>]]
    /\ lastYield = NoYield
    /\ ndata = 0
    /\ dropped = FALSE
    /\ seenAuth = FALSE
    /\ authPhase = "none"
    /\ closed = FALSE

Init ==
    /\ variant \in {"DXLINK", "LEGACY"}
    /\ Fresh
    /\ fn = NoCall

----------------------------------------------------------------------------
(* The connect task of DXLinkStreamer *)

\* _connect, lines 69-77 (DXLINK) / 116-122 (LEGACY): the token is fetched,
\* the websocket opened and the first frame written: SETUP, or the handshake
\* message, which carries the token
Connect ==
    /\ connect = "init"
    /\ IF variant = "DXLINK"
       THEN /\ Write(Out("SETUP", 0, 0, "", "connect"))
            /\ connect' = "recv"
            /\ UNCHANGED <<counter, authPhase>>
       ELSE /\ counter' = counter + 1
            /\ Write(Out(HANDSHAKE, 0, NextId(counter), "", "connect"))
            /\ connect' = "handshake"
            /\ authPhase' = "sent"
    /\ UNCHANGED <<fn, variant, toCreate, authorized, channels, keepAlive, queue,
                   queueCandle, createSt, caller, consumer, lastYield, ndata, dropped,
                   seenAuth, closed>>

\* ws_connect raises (or, in DXLinkStreamer._connect, the token request):
\* the connect task ends with the error
ConnectFail ==
    /\ connect = "init"
    /\ connect' = "dead"
    /\ UNCHANGED <<fn, variant, toCreate, authorized, channels, keepAlive, counter,
                   out, outBit, queue, queueCandle, createSt, caller, consumer,
                   lastYield, ndata, dropped, seenAuth, authPhase, closed>>

\* A client that takes every AUTH_STATE frame for the authorization: against
\* it frames are sent before the authorization succeeded (C4)
AuthorizesAny(f) == f.type = "AUTH_STATE"

\* _on_message, line 101: the frame that authorizes the connection
Authorizes(f) == f.type = "AUTH_STATE" /\ f.ok

\* _map_message, lines 175-183: the eventType values that bind `event`
KnownEvent(k) == k \in {"Quote", "Profile", "Summary", "Trade"}

\* A _create_channel that makes a new entry of the registry: against it the
\* dispatch loop erases the symbols a caller recorded (C24)
CreateChannelFresh(event) ==
    /\ channels' = [channels EXCEPT ![EVENTTYPE_CHANNEL[event]] =
                                        [state |-> "REQUEST", symbols |-> <<>>]]
    /\ Write(Out("CHANNEL_REQUEST", EVENTTYPE_CHANNEL[event], 0, "", "connect"))

\* _create_channel: the channel of `event` becomes REQUEST and its
\* CHANNEL_REQUEST is written
CreateChannel(event) ==
    /\ channels' = [channels EXCEPT ![EVENTTYPE_CHANNEL[event]].state = "REQUEST"]
    /\ Write(Out("CHANNEL_REQUEST", EVENTTYPE_CHANNEL[event], 0, "", "connect"))

\* The type values _on_message has a case for
HandledTypes == {"SETUP", "AUTH_STATE", "CHANNEL_OPENED", "FEED_CONFIG", "FEED_DATA"}

\* A dispatch loop that answers a frame with no case: against it such a
\* frame has an effect (C9)
DroppedReply ==
    /\ Write(Out("KEEPALIVE", 0, 0, "", "connect"))
    /\ UNCHANGED <<connect, toCreate, authorized, channels, keepAlive, queue,
                   ndata, seenAuth, authPhase>>

\* _on_message on a frame with no case: nothing is done
Dropped ==
    UNCHANGED <<connect, toCreate, authorized, channels, keepAlive, out, outBit,
                queue, ndata, seenAuth, authPhase>>

\* The type of frame f has a case in _on_message
Handled(f) == f.type \in HandledTypes

\* The value a provider sends for a numeric field, the float NaN and None
Number == "1.5"
NaNString == "NaN"
NaNFloat == "float('nan')"
None == "None"

\* The result of a constructor: it raised, or the field holds value v
Built(v) == [raised |-> FALSE, value |-> v]
BuildFails == [raised |-> TRUE, value |-> None]

\* _map_message, lines 177-183: cls(**data) for a payload whose numeric field
\* of type ftype ("float", "int") holds value v.  data always has the key
\* 'eventType' (line 175 reads it).  dxlink_models.Quote is a pydantic model
\* with a field eventType: float("NaN") is a float, int("NaN") is an error.
\* Profile, Summary and Trade are dataclasses with no field eventType, and
\* their __init__ refuses the keyword
Construct(kind, ftype, v) ==
    IF kind = "Quote"
    THEN IF v = NaNString
         THEN IF ftype = "float" THEN Built(NaNFloat) ELSE BuildFails
         ELSE Built(v)
    ELSE BuildFails

\* _map_message, lines 174-185: the event built from a payload of a known
\* kind is put on the queue; with any other eventType `event` is unbound at
\* line 185; an error of either kind ends the connect task
MapMessage(f) ==
    /\ IF KnownEvent(f.kind) /\ ~Construct(f.kind, "float", Number).raised
       THEN /\ ndata < MaxData
            /\ queue' = Put(queue, [kind |-> f.kind, len |-> 0, frame |-> ndata + 1])
            /\ ndata' = ndata + 1
            /\ UNCHANGED connect
       ELSE /\ connect' = "dead"
            /\ UNCHANGED <<queue, ndata>>
    /\ UNCHANGED <<toCreate, authorized, channels, keepAlive, out, outBit,
                   seenAuth, authPhase>>

\* One pass of the dispatch loop, lines 80-82 and _on_message (lines 92-116)
OnMessage(f) ==
    /\ variant = "DXLINK"
    /\ connect = "recv"
    /\ dropped' = (dropped \/ ~Handled(f))
    /\ CASE f.type = "SETUP" ->
              /\ Write(Out("AUTH", 0, 0, "", "connect"))
              /\ authPhase' = IF authPhase = "none" THEN "sent" ELSE authPhase
              /\ UNCHANGED <<connect, toCreate, authorized, channels, keepAlive,
                             queue, ndata, seenAuth>>
         [] f.type = "AUTH_STATE" ->
              IF Authorizes(f)
              THEN /\ Len(keepAlive) < MaxTasks
                   /\ authorized' = TRUE
                   /\ seenAuth' = (seenAuth \/ f.ok)
                   /\ CreateChannel(Head(EventKeys))
                   /\ toCreate' = Tail(EventKeys)
                   /\ connect' = "creating"
                   /\ UNCHANGED <<keepAlive, queue, ndata, authPhase>>
              ELSE /\ authPhase' = IF authPhase = "sent" /\ ~authorized
                                   THEN "failed" ELSE authPhase
                   /\ UNCHANGED <<connect, toCreate, authorized, channels,
                                  keepAlive, out, outBit, queue, ndata, seenAuth>>
         [] f.type \in {"CHANNEL_OPENED", "FEED_CONFIG"} ->
              /\ IF f.channel \in ChannelIds
                 THEN /\ channels' = [channels EXCEPT ![f.channel].state =
                                         IF f.type = "CHANNEL_OPENED" THEN "OPENED" ELSE "CONFIG"]
                      /\ UNCHANGED connect
                 ELSE /\ connect' = "dead"
                      /\ UNCHANGED channels
              /\ UNCHANGED <<toCreate, authorized, keepAlive, out, outBit, queue,
                             ndata, seenAuth, authPhase>>
         [] f.type = "FEED_DATA" -> MapMessage(f)
         [] OTHER -> Dropped
    /\ UNCHANGED <<fn, variant, counter, queueCandle, createSt, caller, consumer,
                   lastYield, closed>>

\* _on_message, lines 104-107, resumed after the await of a _create_channel:
\* the next channel is requested; after the last one the keep-alive task is
\* created and the loop reads the next frame
ResumeAuthorized ==
    /\ connect = "creating"
    /\ IF toCreate # <<>>
       THEN /\ CreateChannel(Head(toCreate))
            /\ toCreate' = Tail(toCreate)
            /\ UNCHANGED <<connect, keepAlive>>
       ELSE /\ keepAlive' = Append(keepAlive, "running")
            /\ connect' = "recv"
            /\ UNCHANGED <<toCreate, channels, out, outBit>>
    /\ UNCHANGED <<fn, variant, authorized, counter, queue, queueCandle, createSt,
                   caller, consumer, lastYield, ndata, dropped, seenAuth, authPhase, closed>>

----------------------------------------------------------------------------
(* The connect task of DataStreamer *)

\* _connect, lines 124-139: the handshake loop.  A message of another channel
\* is ignored; a handshake answer either sets client_id and starts the
\* heartbeat task, or raises TastyTradeException
HandshakeRecv(f) ==
    /\ variant = "LEGACY"
    /\ connect = "handshake"
    /\ UNCHANGED dropped
    /\ IF f.type = HANDSHAKE
       THEN IF f.ok
            THEN /\ authorized' = TRUE
                 /\ seenAuth' = TRUE
                 /\ keepAlive' = Append(keepAlive, "running")
                 /\ connect' = "recv"
                 /\ UNCHANGED authPhase
            ELSE /\ connect' = "dead"
                 /\ authPhase' = "failed"
                 /\ UNCHANGED <<authorized, seenAuth, keepAlive>>
       ELSE UNCHANGED <<authorized, seenAuth, keepAlive, connect, authPhase>>
    /\ UNCHANGED <<fn, variant, toCreate, channels, counter, out, outBit, queue,
                   queueCandle, createSt, caller, consumer, lastYield, ndata, closed>>

\* _connect, lines 143-162: the main loop puts the raw data of a message on
\* the queue of its channel
LegacyDispatch(f) ==
    /\ variant = "LEGACY"
    /\ connect = "recv"
    /\ UNCHANGED dropped
    /\ CASE f.type = DATA ->
              /\ ndata < MaxData
              /\ queue' = Put(queue, [kind |-> f.kind, len |-> f.len, frame |-> ndata + 1])
              /\ ndata' = ndata + 1
              /\ UNCHANGED queueCandle
         [] f.type = CANDLE ->
              /\ ndata < MaxData
              /\ queueCandle' = Put(queueCandle, [kind |-> f.kind, len |-> f.len, frame |-> ndata + 1])
              /\ ndata' = ndata + 1
              /\ UNCHANGED queue
         [] OTHER -> UNCHANGED <<queue, queueCandle, ndata>>
    /\ UNCHANGED <<fn, variant, connect, toCreate, authorized, channels, keepAlive,
                   counter, out, outBit, createSt, caller, consumer, lastYield,
                   seenAuth, authPhase, closed>>

----------------------------------------------------------------------------
(* The end of the connection *)

\* The peer closes the websocket: `async for` ends, and the enclosing
\* `while True` (dxlink_streamer.py line 79, data_streamer.py lines 124 and
\* 143) starts it again on the closed websocket, for ever
ConnectionClosed ==
    /\ connect \in {"recv", "handshake"}
    /\ connect' = "spinning"
    /\ UNCHANGED <<fn, variant, toCreate, authorized, channels, keepAlive, counter,
                   out, outBit, queue, queueCandle, createSt, caller, consumer,
                   lastYield, ndata, dropped, seenAuth, authPhase, closed>>

\* The transport fails: the websocket yields an error message, json.loads of
\* its data raises and the connect task ends with the error
TransportError ==
    /\ connect \in {"recv", "handshake"}
    /\ connect' = "dead"
    /\ UNCHANGED <<fn, variant, toCreate, authorized, channels, keepAlive, counter,
                   out, outBit, queue, queueCandle, createSt, caller, consumer,
                   lastYield, ndata, dropped, seenAuth, authPhase, closed>>

\* The cancelled connect task runs: CancelledError leaves the `async with`
\* blocks, which close the websocket
ConnectUnwind ==
    /\ connect = "cancelling"
    /\ connect' = "cancelled"
    /\ UNCHANGED <<fn, variant, toCreate, authorized, channels, keepAlive, counter,
                   out, outBit, queue, queueCandle, createSt, caller, consumer,
                   lastYield, ndata, dropped, seenAuth, authPhase, closed>>

----------------------------------------------------------------------------
(* The keep-alive tasks *)

\* _keep_alive (dxlink_streamer.py lines 118-123) and _heartbeat
\* (data_streamer.py lines 240-257): one round of the loop of task i.  The
\* write raises on a closed websocket and the task ends with the error
KeepAliveSend(i) ==
    /\ keepAlive[i] = "running"
    /\ variant = "LEGACY" => counter < MaxId
    /\ counter' = IF variant = "LEGACY" THEN counter + 1 ELSE counter
    /\ IF WsOpen
       THEN /\ Write(IF variant = "DXLINK" THEN Out("KEEPALIVE", 0, 0, "", "keepalive")
                     ELSE Out(HEARTBEAT, 0, NextId(counter), "", "keepalive"))
            /\ UNCHANGED keepAlive
       ELSE /\ keepAlive' = [keepAlive EXCEPT ![i] = "dead"]
            /\ UNCHANGED <<out, outBit>>
    /\ UNCHANGED <<fn, variant, connect, toCreate, authorized, channels, queue,
                   queueCandle, createSt, caller, consumer, lastYield, ndata, dropped,
                   seenAuth, authPhase, closed>>

----------------------------------------------------------------------------
(* create() *)

\* A create() that waits for the websocket only: against it create() returns
\* before the authorizing frame (C1)
CreateBarrierWs == connect # "init"

\* The condition that ends the polling loop of create(): self._authorized
\* (dxlink_streamer.py line 57), self.client_id (data_streamer.py line 52)
CreateBarrier == authorized

\* create() returns the client
CreateReturn ==
    /\ createSt = "pending"
    /\ CreateBarrier
    /\ createSt' = "returned"
    /\ UNCHANGED <<fn, variant, connect, toCreate, authorized, channels, keepAlive,
                   counter, out, outBit, queue, queueCandle, caller, consumer,
                   lastYield, ndata, dropped, seenAuth, authPhase, closed>>

----------------------------------------------------------------------------
(* The caller task: it holds the client create() returned *)

Idle(result) == [pc |-> "idle", ev |-> "", rest |-> <<>>,
                 calls |-> caller.calls, res |-> result, waited |-> FALSE]

CanCall ==
    /\ createSt = "returned"
    /\ caller.pc = "idle"
    /\ caller.calls < MaxCalls

\* A subscribe_event that never polls: against it a subscription is sent on a
\* channel in state REQUEST (C2)
NoWait(state) == FALSE

\* subscribe_event, line 137: the condition that keeps the caller polling
MustWait(state) == state = "REQUEST"

\* The FEED_SUBSCRIPTION frame of subscribe_event, lines 140-144, is written:
\* the write raises on a closed websocket
SendSubscription(ev, calls, waited) ==
    IF WsOpen
    THEN /\ Write(Out("FEED_SUBSCRIPTION", EVENTTYPE_CHANNEL[ev], 0, "add", "caller"))
         /\ caller' = [pc |-> "sub_sent", ev |-> ev, rest |-> <<>>,
                       calls |-> calls, res |-> "", waited |-> waited]
    ELSE /\ caller' = [pc |-> "idle", ev |-> "", rest |-> <<>>,
                       calls |-> calls, res |-> "raised", waited |-> FALSE]
         /\ UNCHANGED <<out, outBit>>

\* A subscribe_event that looks for the channel of the event only: against
\* it a subscription is sent on a channel that was never requested (C14)
HasChannel(ev) == ev \in DOMAIN EVENTTYPE_CHANNEL

\* subscribe_event, line 137: self._channels[EVENTTYPE_CHANNEL[event]]['state']
\* can be read: the event has a channel and the channel was requested
HasState(ev) ==
    /\ ev \in DOMAIN EVENTTYPE_CHANNEL
    /\ channels[EVENTTYPE_CHANNEL[ev]].state # "NONE"

\* subscribe_event is called (the call is counted first).  Line 137:
\* EVENTTYPE_CHANNEL[event] and ['state'] raise KeyError for an event with no
\* channel and for a channel that was never requested; while the channel is
\* REQUEST the caller polls; otherwise the frame is written at once
CallSubscribeEvent(ev) ==
    /\ variant = "DXLINK"
    /\ CanCall
    /\ IF HasState(ev)
       THEN IF MustWait(channels[EVENTTYPE_CHANNEL[ev]].state)
            THEN /\ caller' = [pc |-> "sub_wait", ev |-> ev, rest |-> <<>>,
                               calls |-> caller.calls + 1, res |-> "", waited |-> TRUE]
                 /\ UNCHANGED <<out, outBit>>
            ELSE SendSubscription(ev, caller.calls + 1, FALSE)
       ELSE /\ caller' = [pc |-> "idle", ev |-> ev, rest |-> <<>>,
                          calls |-> caller.calls + 1, res |-> "KeyError", waited |-> FALSE]
            /\ UNCHANGED <<out, outBit>>
    /\ UNCHANGED <<fn, variant, connect, toCreate, authorized, channels, keepAlive,
                   counter, queue, queueCandle, createSt, consumer, lastYield,
                   ndata, dropped, seenAuth, authPhase, closed>>

\* subscribe_event, lines 137-144, resumed from `await asyncio.sleep(0)`: the
\* polling loop ends once the channel is no longer REQUEST
SubscribeSend ==
    /\ caller.pc = "sub_wait"
    /\ ~MustWait(channels[EVENTTYPE_CHANNEL[caller.ev]].state)
    /\ SendSubscription(caller.ev, caller.calls, TRUE)
    /\ UNCHANGED <<fn, variant, connect, toCreate, authorized, channels, keepAlive,
                   counter, queue, queueCandle, createSt, consumer, lastYield,
                   ndata, dropped, seenAuth, authPhase, closed>>

\* list.extend (subscribe_event, line 146)
Extend(list, more) == list \o more

\* subscribe_event, line 146, after the await of the write
SubscribeRecord ==
    /\ caller.pc = "sub_sent"
    /\ channels' = [channels EXCEPT ![EVENTTYPE_CHANNEL[caller.ev]].symbols =
                                        Extend(@, Symbols)]
    /\ caller' = Idle("ok")
    /\ UNCHANGED <<fn, variant, connect, toCreate, authorized, keepAlive, counter,
                   out, outBit, queue, queueCandle, createSt, consumer, lastYield,
                   ndata, dropped, seenAuth, authPhase, closed>>

\* The keys of self._channels, in insertion order (close, line 153)
ChannelKeys == <<QUOTE_CH, PROFILE_CH, SUMMARY_CH, TRADE_CH, GREEKS_CH>>

\* close, lines 153-156: the CHANNEL_CANCEL of the first channel of `rest` is
\* written; the write raises on a closed websocket
SendCancel(rest, calls) ==
    IF WsOpen
    THEN /\ Write(Out("CHANNEL_CANCEL", Head(rest), 0, "", "caller"))
         /\ caller' = [pc |-> "closing", ev |-> "", rest |-> Tail(rest),
                       calls |-> calls, res |-> "", waited |-> FALSE]
    ELSE /\ caller' = [pc |-> "idle", ev |-> "", rest |-> <<>>,
                       calls |-> calls, res |-> "raised", waited |-> FALSE]
         /\ UNCHANGED <<out, outBit>>

\* DXLinkStreamer.close is called: it runs up to the await of its first write
CallClose ==
    /\ variant = "DXLINK"
    /\ CanCall
    /\ SendCancel(ChannelKeys, caller.calls + 1)
    /\ UNCHANGED <<fn, variant, connect, toCreate, authorized, channels, keepAlive,
                   counter, queue, queueCandle, createSt, consumer, lastYield,
                   ndata, dropped, seenAuth, authPhase, closed>>

\* close, lines 153-158, resumed after the await of a write: the next
\* CHANNEL_CANCEL is written; after the last one both task handles are
\* cancelled.  self._keep_alive_task is no attribute (and close raises) when
\* no keep-alive task was created yet
CloseStep ==
    /\ caller.pc = "closing"
    /\ IF caller.rest # <<>>
       THEN /\ SendCancel(caller.rest, caller.calls)
            /\ UNCHANGED <<connect, keepAlive, closed>>
       ELSE /\ connect' = Cancel(connect)
            /\ keepAlive' = CancelKeepAlive(keepAlive)
            /\ closed' = TRUE
            /\ caller' = Idle(IF keepAlive = <<>> THEN "raised" ELSE "ok")
            /\ UNCHANGED <<out, outBit>>
    /\ UNCHANGED <<fn, variant, toCreate, authorized, channels, counter, queue,
                   queueCandle, createSt, consumer, lastYield, ndata, dropped,
                   seenAuth, authPhase>>

\* DataStreamer.subscribe, unsubscribe, subscribe_candle, unsubscribe_candle
\* (lines 259-344): an id is drawn and the /service/sub message written
LegacyOps == {"add", "remove", "addTimeSeries", "removeTimeSeries"}

LegacySubscription(op) ==
    /\ variant = "LEGACY"
    /\ CanCall
    /\ counter < MaxId
    /\ counter' = counter + 1
    /\ IF WsOpen
       THEN /\ Write(Out(SUBSCRIPTION, 0, NextId(counter), op, "caller"))
            /\ caller' = [caller EXCEPT !.calls = @ + 1, !.res = "ok"]
       ELSE /\ caller' = [caller EXCEPT !.calls = @ + 1, !.res = "raised"]
            /\ UNCHANGED <<out, outBit>>
    /\ UNCHANGED <<fn, variant, connect, toCreate, authorized, channels, keepAlive,
                   queue, queueCandle, createSt, consumer, lastYield, ndata, dropped,
                   seenAuth, authPhase, closed>>

\* DataStreamer.close, lines 233-238
LegacyClose ==
    /\ variant = "LEGACY"
    /\ CanCall
    /\ connect' = Cancel(connect)
    /\ keepAlive' = CancelKeepAlive(keepAlive)
    /\ closed' = TRUE
    /\ caller' = [caller EXCEPT !.calls = @ + 1, !.res = "ok"]
    /\ UNCHANGED <<fn, variant, toCreate, authorized, channels, counter, out, outBit,
                   queue, queueCandle, createSt, consumer, lastYield, ndata, dropped,
                   seenAuth, authPhase>>

----------------------------------------------------------------------------
(* The event mapper of DataStreamer *)

\* `msg_type == EventType.X` (data_streamer.py lines 359-373): msg_type is a
\* str and models.EventType (models.py line 1393) is a plain Enum, whose
\* members equal no str
StrEqEnum(s, member) == FALSE

\* The members _map_message compares msg_type with
LegacyKinds == {"Candle", "Greeks", "Profile", "Quote", "Summary", "TheoPrice",
                "TimeAndSale", "Trade"}

\* len(cls.__dataclass_fields__) of the event classes of models.py
FieldCount(k) ==
    CASE k = "Candle" -> 17
      [] k = "Greeks" -> 13
      [] k = "Profile" -> 19
      [] k = "Quote" -> 12
      [] k = "Summary" -> 13
      [] k = "TheoPrice" -> 12
      [] k = "TimeAndSale" -> 21
      [] k = "Trade" -> 14
      [] k = "Underlying" -> 12

\* Event.from_stream (models.py lines 1439-1448) on `len` scalars: the number
\* of records built, or -1 when it raises
FromStream(len, size) == IF len % size # 0 THEN -1 ELSE len \div size

\* DataStreamer._map_message (lines 346-376): the number of events returned,
\* or -1 when it raises
LegacyMapMessage(item) ==
    IF \E k \in LegacyKinds : StrEqEnum(item.kind, k)
    THEN FromStream(item.len, FieldCount(CHOOSE k \in LegacyKinds : StrEqEnum(item.kind, k)))
    ELSE -1

----------------------------------------------------------------------------
(* The consumers *)

\* The entry of lastYield for record idx of a queue item
Yield(item, idx) == [kind |-> item.kind, frame |-> item.frame, idx |-> idx]

\* The list of records still to yield from a queue item mapped to n records
Rest(item, n) == [i \in 1..(n - 1) |-> Yield(item, i + 1)]

\* What queue.get (asyncio.Queue) leaves on the queue: all but the head
Take(q) == Tail(q)

\* The iterator of consumer c is resumed: listen (dxlink_streamer.py lines
\* 160-163) yields the item it takes from the queue; listen and listen_candle
\* (data_streamer.py lines 211-231) map the item, yield its records one at a
\* time and end with the error when _map_message raises
Listen(c) ==
    LET me == consumer[c]
        q == IF QueueOf(c) = "data" THEN queue ELSE queueCandle
        n == LegacyMapMessage(Head(q))
    IN
    /\ createSt = "returned"
    /\ me.st = "waiting"
    /\ IF me.pending # <<>>
       THEN /\ lastYield' = Head(me.pending)
            /\ consumer' = [consumer EXCEPT ![c].pending = Tail(@)]
            /\ UNCHANGED <<queue, queueCandle>>
       ELSE /\ q # <<>>
            /\ IF QueueOf(c) = "data"
               THEN queue' = Take(queue) /\ UNCHANGED queueCandle
               ELSE queueCandle' = Take(queueCandle) /\ UNCHANGED queue
            /\ IF variant = "DXLINK"
               THEN /\ lastYield' = Yield(Head(q), 1)
                    /\ UNCHANGED consumer
               ELSE IF n < 0
                    THEN /\ consumer' = [consumer EXCEPT ![c].st = "ended"]
                         /\ UNCHANGED lastYield
                    ELSE IF n = 0
                         THEN UNCHANGED <<consumer, lastYield>>
                         ELSE /\ lastYield' = Yield(Head(q), 1)
                              /\ consumer' = [consumer EXCEPT ![c].pending = Rest(Head(q), n)]
    /\ UNCHANGED <<fn, variant, connect, toCreate, authorized, channels, keepAlive,
                   counter, out, outBit, createSt, caller, ndata, dropped, seenAuth,
                   authPhase, closed>>

----------------------------------------------------------------------------
(* Event.from_stream *)

\* The positional array <<1, ..., n>>: every element is its own position
Iota(n) == [i \in 1..n |-> i]

\* The result of a call: it raised, or it returned the list objs
Returned(objs) == [raised |-> FALSE, objs |-> objs]
Raised == [raised |-> TRUE, objs |-> <<>>]

\* len(cls.__dataclass_fields__) of the Event subclasses of dxlink_models.py
\* (its Quote is no Event)
DxFieldCount(k) ==
    CASE k = "Candle" -> 17
      [] k = "Greeks" -> 13
      [] k = "Profile" -> 19
      [] k = "Summary" -> 13
      [] k = "TheoPrice" -> 12
      [] k = "TimeAndSale" -> 22
      [] k = "Trade" -> 14
      [] k = "Underlying" -> 12

\* The Event subclasses of models.py and of dxlink_models.py
EventClasses(mod) ==
    IF mod = "models"
    THEN {"Candle", "Greeks", "Profile", "Quote", "Summary", "TheoPrice",
          "TimeAndSale", "Trade", "Underlying"}
    ELSE {"Candle", "Greeks", "Profile", "Summary", "TheoPrice", "TimeAndSale",
          "Trade", "Underlying"}

\* size of from_stream for class k of module mod
SizeOf(mod, k) ==
    IF mod = "models"
    THEN FieldCount(k)
    ELSE DxFieldCount(k)

\* A from_stream that builds the records that fit and ignores the rest:
\* against it a batch is parsed partially (C11)
SlicesPartial(values, size) ==
    Returned([i \in 1..(Len(values) \div size) |->
                 SubSeq(values, (i - 1) * size + 1, i * size)])

\* The body of from_stream on the list `values` (models.py lines 1439-1448,
\* dxlink_models.py lines 50-59): cls(*values[i*size:(i+1)*size]) for every i
\* below len(values) / size, or the exception when that is no integer
Slices(values, size) ==
    IF Len(values) % size # 0
    THEN Raised
    ELSE Returned([i \in 1..(Len(values) \div size) |->
                      SubSeq(values, (i - 1) * size + 1, i * size)])

\* Event.from_stream of models.py: data is the positional array
ModelsFromStream(data, size) == Slices(data, size)

\* Event.from_stream of dxlink_models.py: data[0] is the positional array
DxFromStream(data, size) == Slices(data[1], size)

\* The calls of from_stream: every class, every array of up to MaxLen values
FromStreamCalls ==
    {[op |-> "from_stream", mod |-> m, kind |-> k, values |-> Iota(n),
      pc |-> "call", res |-> Returned(<<>>)] :
        m \in {"models"}, k \in EventClasses("models"), n \in 0..MaxLen}
    \cup
    {[op |-> "from_stream", mod |-> m, kind |-> k, values |-> Iota(n),
      pc |-> "call", res |-> Returned(<<>>)] :
        m \in {"dxlink_models"}, k \in EventClasses("dxlink_models"), n \in 0..MaxLen}

\* from_stream runs
ApplyFromStream ==
    /\ fn.op = "from_stream"
    /\ fn.pc = "call"
    /\ fn' = [fn EXCEPT !.pc = "done",
                        !.res = IF fn.mod = "models"
                                THEN ModelsFromStream(fn.values, SizeOf(fn.mod, fn.kind))
                                ELSE DxFromStream(<<fn.values>>, SizeOf(fn.mod, fn.kind))]
    /\ UNCHANGED streamVars

----------------------------------------------------------------------------
(* DataStreamer._map_message as a function *)

\* The messages [msg_type, [scalars]] given to _map_message: msg_type is one
\* of the names of models.EventType or "Order", with 0..MaxLen scalars
MapMessageCalls ==
    {[op |-> "map_message", kind |-> k, len |-> n, pc |-> "call", n |-> 0] :
        k \in LegacyKinds \cup {"Order"}, n \in 0..MaxLen}

\* _map_message runs: fn.n is the number of events returned, -1 when it raised
ApplyMapMessage ==
    /\ fn.op = "map_message"
    /\ fn.pc = "call"
    /\ fn' = [fn EXCEPT !.pc = "done",
                        !.n = LegacyMapMessage([kind |-> fn.kind, len |-> fn.len])]
    /\ UNCHANGED streamVars

----------------------------------------------------------------------------
(* The symbols a DXLinkStreamer records for a channel, one caller at a time *)

\* The elements of a list
Range(list) == {list[i] : i \in 1..Len(list)}

\* A subscription of `symbols` to event ev on a client that has recorded
\* `pre` for the channel of ev, followed by the removal of the same symbols
RegistryCalls ==
    {[op |-> "registry", ev |-> e, pre |-> p, symbols |-> y, recorded |-> p,
      pc |-> "add", raised |-> FALSE] :
        e \in DOMAIN EVENTTYPE_CHANNEL,
        p \in {<<>>, <<"QQQ">>, <<"SPY">>},
        y \in {<<"SPY">>, <<"SPY", "IWM">>}}

\* subscribe_event on an open channel: line 146 records the symbols
RegistryAdd ==
    /\ fn.op = "registry"
    /\ fn.pc = "add"
    /\ fn' = [fn EXCEPT !.pc = "remove", !.recorded = Extend(@, fn.symbols)]
    /\ UNCHANGED streamVars

\* The removal: DXLinkStreamer (lines 24-185) has no attribute that removes
\* a subscription, so the call raises AttributeError and self._channels is
\* as it was
RegistryRemove ==
    /\ fn.op = "registry"
    /\ fn.pc = "remove"
    /\ fn' = [fn EXCEPT !.pc = "done", !.raised = TRUE]
    /\ UNCHANGED streamVars

----------------------------------------------------------------------------
(* The event built by DXLinkStreamer._map_message *)

\* The payloads of a known kind: one numeric field, of type float or int,
\* holds a number or the string "NaN"
ConstructCalls ==
    {[op |-> "construct", kind |-> k, ftype |-> t, value |-> v, pc |-> "call",
      res |-> Built(None)] :
        k \in {"Quote", "Profile", "Summary", "Trade"},
        t \in {"float", "int"},
        v \in {Number, NaNString}}

\* The constructor of the event class runs
ApplyConstruct ==
    /\ fn.op = "construct"
    /\ fn.pc = "call"
    /\ fn' = [fn EXCEPT !.pc = "done", !.res = Construct(fn.kind, fn.ftype, fn.value)]
    /\ UNCHANGED streamVars

----------------------------------------------------------------------------
(* Adapter.do *)

\* What requests.request does: it raises RequestException (exc), or it
\* returns a response with a body (empty, a JSON document, or bytes that are
\* no JSON) and a status code
Bodies == {"empty", "json", "garbage"}
StatusCodes == {100, 199, 200, 204, 299, 300, 404, 500}

\* is_success, line 59
IsSuccess(status) == 299 >= status /\ status >= 200

\* The AdapterException of line 69
StatusError == "AdapterException: status"

\* An Adapter.do that decodes every body: against it an empty body is an
\* error (C18)
DoDecodingAll(exc, body, status) ==
    IF exc THEN "AdapterException: Request failed"
    ELSE IF body # "json" THEN "AdapterException: Decoding JSON failed"
    ELSE IF IsSuccess(status) THEN "RequestResult"
    ELSE StatusError

\* Adapter.do, lines 35-69: what the call returns or raises
Do(exc, body, status) ==
    IF exc THEN "AdapterException: Request failed"
    ELSE IF body = "garbage" THEN "AdapterException: Decoding JSON failed"
    ELSE IF IsSuccess(status) THEN "RequestResult"
    ELSE StatusError

DoCalls ==
    {[op |-> "do", exc |-> e, body |-> b, status |-> c, pc |-> "call", res |-> ""] :
        e \in BOOLEAN, b \in Bodies, c \in StatusCodes}

\* Adapter.do runs
ApplyDo ==
    /\ fn.op = "do"
    /\ fn.pc = "call"
    /\ fn' = [fn EXCEPT !.pc = "done", !.res = Do(fn.exc, fn.body, fn.status)]
    /\ UNCHANGED streamVars

----------------------------------------------------------------------------
(* The paginated list calls: Account.get_transactions,
   Account.get_order_history, Equity.get_active_equities *)

ListCalls == {"get_transactions", "get_order_history", "get_active_equities"}

\* What session.request answers for the page asked: the server holds
\* `total` pages, echoes the page-offset of the request and returns the items
\* of that page (one item per page, named by its page; none past the end)
PageItems(offset, total) == IF offset < total THEN <<offset>> ELSE <<>>

\* A test that stops one page late: against it page `total` is requested too
\* (C19)
FinishedLate(offset, total) == offset >= total

\* pagination['page-offset'] >= pagination['total-pages'] - 1
Finished(offset, total) == offset >= total - 1

\* The state of a call at its first request: page_offset omitted (paginate,
\* from page 0) or given
ListCall(f, paginate, total, offset) ==
    [op |-> "list", f |-> f, paginate |-> paginate, total |-> total,
     offset |-> offset, requested |-> <<>>, pages |-> <<>>, pc |-> "loop",
     res |-> <<>>]

PaginateCalls ==
    {ListCall(f, TRUE, t, 0) : f \in ListCalls, t \in 0..MaxPages}
    \cup {ListCall(f, FALSE, t, p) :
            f \in ListCalls, t \in 0..MaxPages, p \in 0..MaxPages}

\* One turn of the `while True` loop: the request, pages.extend, the two
\* break tests and the increment of payload['page-offset']
PageRequest ==
    /\ fn.op = "list"
    /\ fn.pc = "loop"
    /\ fn' = [fn EXCEPT
            !.requested = Append(@, fn.offset),
            !.pages = @ \o PageItems(fn.offset, fn.total),
            !.pc = IF Finished(fn.offset, fn.total) \/ ~fn.paginate
                   THEN "return" ELSE "loop",
            !.offset = IF Finished(fn.offset, fn.total) \/ ~fn.paginate
                       THEN @ ELSE @ + 1]
    /\ UNCHANGED streamVars

\* The return statement: the records of the items, in the order of `pages`
PageReturn ==
    /\ fn.op = "list"
    /\ fn.pc = "return"
    /\ fn' = [fn EXCEPT !.pc = "done", !.res = fn.pages]
    /\ UNCHANGED streamVars

----------------------------------------------------------------------------
(* The specification *)

Next ==
    \/ Connect
    \/ ConnectFail
    \/ \E f \in DxFrames : OnMessage(f)
    \/ ResumeAuthorized
    \/ \E f \in LegacyFrames : HandshakeRecv(f)
    \/ \E f \in LegacyFrames : LegacyDispatch(f)
    \/ ConnectionClosed
    \/ TransportError
    \/ ConnectUnwind
    \/ \E i \in 1..Len(keepAlive) : KeepAliveSend(i)
    \/ CreateReturn
    \/ \E ev \in {"Quote", "Trade", "Greeks"} : CallSubscribeEvent(ev)
    \/ SubscribeSend
    \/ SubscribeRecord
    \/ CallClose
    \/ CloseStep
    \/ \E op \in LegacyOps : LegacySubscription(op)
    \/ LegacyClose
    \/ \E c \in Consumers : Listen(c)

Spec == Init /\ [][Next]_vars

\* The event loop runs every task that is ready: each step of a task of the
\* client that stays enabled is taken.  What the server and the caller do
\* (frames, failures, calls) is under no obligation.
FairSpec ==
    /\ Spec
    /\ WF_vars(Connect)
    /\ WF_vars(ResumeAuthorized)
    /\ WF_vars(ConnectUnwind)
    /\ WF_vars(CreateReturn)
    /\ WF_vars(SubscribeSend)
    /\ WF_vars(SubscribeRecord)
    /\ WF_vars(CloseStep)
    /\ \A c \in Consumers : WF_vars(Listen(c))

\* The steps of a client whose transport stays up: the websocket is opened,
\* the peer does not close it and no read fails
LiveNext ==
    \/ Connect
    \/ \E f \in DxFrames : OnMessage(f)
    \/ ResumeAuthorized
    \/ \E f \in LegacyFrames : HandshakeRecv(f)
    \/ \E f \in LegacyFrames : LegacyDispatch(f)
    \/ ConnectUnwind
    \/ \E i \in 1..Len(keepAlive) : KeepAliveSend(i)
    \/ CreateReturn
    \/ \E ev \in {"Quote", "Trade", "Greeks"} : CallSubscribeEvent(ev)
    \/ SubscribeSend
    \/ SubscribeRecord
    \/ CallClose
    \/ CloseStep
    \/ \E op \in LegacyOps : LegacySubscription(op)
    \/ LegacyClose
    \/ \E c \in Consumers : Listen(c)

\* On a transport that stays up, the event loop runs every task that is
\* ready, the keep-alive tasks included: a keep-alive task sleeps for its
\* period (dxlink_streamer.py line 123, data_streamer.py line 257) and is
\* then resumed
LiveSpec ==
    /\ Init
    /\ [][LiveNext]_vars
    /\ WF_vars(Connect)
    /\ WF_vars(ResumeAuthorized)
    /\ WF_vars(ConnectUnwind)
    /\ WF_vars(CreateReturn)
    /\ WF_vars(SubscribeSend)
    /\ WF_vars(SubscribeRecord)
    /\ WF_vars(CloseStep)
    /\ WF_vars(\E i \in 1..Len(keepAlive) : KeepAliveSend(i))
    /\ \A c \in Consumers : WF_vars(Listen(c))

\* The calls of the functions that are no part of a streaming client
FnCalls ==
    FromStreamCalls \cup MapMessageCalls \cup RegistryCalls \cup ConstructCalls
    \cup DoCalls \cup PaginateCalls

FnInit ==
    /\ variant = "NONE"
    /\ Fresh
    /\ fn \in FnCalls

FnNext ==
    \/ ApplyFromStream
    \/ ApplyMapMessage
    \/ RegistryAdd
    \/ RegistryRemove
    \/ ApplyConstruct
    \/ ApplyDo
    \/ PageRequest
    \/ PageReturn

\* Every call drawn by FnInit, run to its end
FnSpec == FnInit /\ [][FnNext]_vars

----------------------------------------------------------------------------
(* Properties *)

\* The step writes a frame to the websocket
Sends == outBit' # outBit

\* C1: create() has returned only if the dispatch loop has handled the
\* authorizing frame (AUTH_STATE AUTHORIZED, handshake successful=true),
\* whatever frames were taken before it
C1_CreateAfterAuthorized == createSt = "returned" => seenAuth

\* create() has returned on a connection that also took a data frame and a
\* frame of a type with no case
C1_Witness == createSt = "returned" /\ seenAuth /\ dropped /\ ndata > 0

\* C2: a FEED_SUBSCRIPTION frame is written for a channel only while the
\* state of that channel is not REQUEST
C2_NoSubscriptionWhileRequested ==
    [][(Sends /\ out'.type = "FEED_SUBSCRIPTION")
          => channels[out'.channel].state # "REQUEST"]_vars

\* subscribe_event found its channel in REQUEST, polled, and has written the
\* frame after the state changed
C2_Witness ==
    /\ caller.pc = "sub_sent"
    /\ caller.waited
    /\ out.type = "FEED_SUBSCRIPTION"
    /\ out.channel = EVENTTYPE_CHANNEL[caller.ev]

\* C3: when the authorization is refused explicitly while create() is
\* pending, create() raises
C3_CreateRaisesOnRefusal ==
    (authPhase = "failed" /\ createSt = "pending") ~> (createSt = "raised")

\* C4: a keep-alive, heartbeat or subscription frame is the last frame
\* written only if the authorization has succeeded
C4_NoTrafficBeforeAuthorized ==
    out.type \in {"KEEPALIVE", HEARTBEAT, "FEED_SUBSCRIPTION", SUBSCRIPTION} => seenAuth

\* A keep-alive frame has been written
C4_Witness == out.type \in {"KEEPALIVE", HEARTBEAT} /\ out.by = "keepalive"

\* C5: once close() has cancelled the tasks, neither a keep-alive task nor
\* the connect task writes a frame
C5_NoSendAfterCancel ==
    [][closed => ~(Sends /\ out'.by \in {"keepalive", "connect"})]_vars

\* C6: after close() has cancelled the tasks and the connect task has ended,
\* every consumer observes the end of the sequence
C6_ConsumersEndAfterClose ==
    (closed /\ connect = "cancelled") ~> (\A c \in Consumers : consumer[c].st = "ended")

\* C7: when the connect task has stopped (it ended with an error, or the
\* connection was closed by the peer), every consumer observes the end of
\* the sequence
C7_ConsumersEndAfterDeath ==
    (connect \in {"dead", "spinning"} /\ createSt = "returned")
        ~> (\A c \in Consumers : consumer[c].st = "ended")

\* C8: the dispatch loop takes a FEED_DATA frame of an unknown eventType and
\* keeps running
C8_UnknownEventSkipped ==
    [][(\E f \in DxFrames : f.type = "FEED_DATA" /\ ~KnownEvent(f.kind) /\ OnMessage(f))
          => connect' = "recv"]_vars

\* C9: a pass of the dispatch loop over a frame whose type is none of SETUP,
\* AUTH_STATE, CHANNEL_OPENED, FEED_CONFIG, FEED_DATA leaves the loop
\* running, writes no frame, enqueues nothing and changes neither the
\* authorized flag nor any channel
C9_UnknownTypeDropped ==
    [][(\E f \in DxFrames : ~Handled(f) /\ OnMessage(f))
          => (connect' = "recv" /\ UNCHANGED <<out, outBit, queue, queueCandle,
                                               authorized, channels, keepAlive>>)]_vars

\* A frame with no case was taken on an authorized connection, which is
\* still dispatching
C9_Witness == dropped /\ connect = "recv" /\ seenAuth /\ variant = "DXLINK"

\* C10: an event yielded after another comes from a later data frame, or is
\* the next record of the same frame
C10_WireOrder ==
    [][lastYield' # lastYield
          => \/ lastYield'.frame > lastYield.frame
             \/ /\ lastYield'.frame = lastYield.frame
                /\ lastYield'.idx = lastYield.idx + 1]_vars

\* The event of the second data frame has been yielded: two frames went
\* through the queue
C10_Witness == lastYield.frame = 2 /\ ndata = 2

C12_QuoteOf14 ==
    (fn.op = "map_message" /\ fn.pc = "done" /\ fn.kind = "Quote") =>
        /\ fn.len = 14 => fn.n = 1
        /\ fn.len = 15 => fn.n = -1

\* C13: after a subscription followed by the removal of the same symbols
\* and event, the set of symbols recorded for the event is the set recorded
\* before the subscription
C13_AddRemoveRestores ==
    (fn.op = "registry" /\ fn.pc = "done") => Range(fn.recorded) = Range(fn.pre)

\* C14: subscribe_event for an event that has no channel, or whose channel
\* was not requested yet, fails with an error, writes no frame and leaves
\* self._channels unchanged
C14_UnconfiguredFailsFast ==
    [][(\E ev \in {"Quote", "Trade", "Greeks"} :
            /\ \/ ev \notin DOMAIN EVENTTYPE_CHANNEL
               \/ channels[EVENTTYPE_CHANNEL[ev]].state = "NONE"
            /\ CallSubscribeEvent(ev))
          => (caller'.res = "KeyError" /\ caller'.pc = "idle"
              /\ UNCHANGED <<out, outBit, channels>>)]_vars

\* subscribe_event for Trade has failed while the connect task was still
\* requesting the channels and the Trade channel was not requested yet
C14_Witness ==
    /\ caller.res = "KeyError" /\ caller.ev = "Trade"
    /\ connect = "creating" /\ channels[TRADE_CH].state = "NONE"

\* The records of the frames 1 .. ndata of a DXLinkStreamer are, in order,
\* the ones yielded so far followed by the ones on the queue
Conserved ==
    variant = "DXLINK" =>
        /\ lastYield.frame + Len(queue) = ndata
        /\ \A i \in 1..Len(queue) : queue[i].frame = lastYield.frame + i

\* C15: a pass of the dispatch loop over a FEED_DATA frame of a known
\* eventType puts exactly one record of that kind on the queue, and every
\* record put is either still queued or was yielded exactly once, by
\* whichever consumer took it
C15_ExactlyOnce ==
    [][/\ \A f \in DxFrames :
             (f.type = "FEED_DATA" /\ KnownEvent(f.kind) /\ OnMessage(f))
                => (/\ Len(queue') = Len(queue) + 1
                    /\ queue'[Len(queue')].kind = f.kind
                    /\ SubSeq(queue', 1, Len(queue)) = queue)
       /\ Conserved'
       /\ (variant = "DXLINK" /\ lastYield' # lastYield)
             => (lastYield'.frame = lastYield.frame + 1 /\ queue' = Tail(queue))]_vars

\* C16: create() completes: on a connection that stays open and never
\* delivers the authorizing frame it ends by raising
C16_CreateCompletes ==
    (connect \in {"recv", "handshake"} /\ ~seenAuth)
        ~> (seenAuth \/ connect \notin {"recv", "handshake"} \/ createSt # "pending")

\* C17: a numeric field that holds the string "NaN" in a Profile, Quote,
\* Trade or Summary payload is None in the record built, and building the
\* record raises no error
C17_NaNIsNone ==
    (fn.op = "construct" /\ fn.pc = "done" /\ fn.value = NaNString) =>
        (~fn.res.raised /\ fn.res.value = None)

\* The results of Adapter.do that are an AdapterException
AdapterExceptions ==
    {"AdapterException: Request failed", "AdapterException: Decoding JSON failed",
     StatusError}

\* C18 as stated: Adapter.do returns a RequestResult exactly when the
\* request raised nothing, the body decodes as JSON and the status is in
\* 200..299; a transport exception raises 'Request failed', a body that does
\* not decode raises 'Decoding JSON failed', a status outside 200..299 raises
\* AdapterException
C18_AsStated ==
    (fn.op = "do" /\ fn.pc = "done") =>
        /\ fn.res = "RequestResult"
              <=> (~fn.exc /\ fn.body = "json" /\ fn.status \in 200..299)
        /\ fn.exc => fn.res = "AdapterException: Request failed"
        /\ (~fn.exc /\ fn.body # "json")
              => fn.res = "AdapterException: Decoding JSON failed"
        /\ (fn.status <= 199 \/ fn.status >= 300) => fn.res \in AdapterExceptions

\* C18, amended: Adapter.do returns a RequestResult exactly when the request
\* raised nothing, the body is empty or decodes as JSON, and the status is in
\* 200..299; a transport exception raises 'Request failed', a body that is
\* not empty and does not decode raises 'Decoding JSON failed', a status
\* outside 200..299 raises AdapterException
C18_DoResult ==
    (fn.op = "do" /\ fn.pc = "done") =>
        /\ fn.res = "RequestResult"
              <=> (~fn.exc /\ fn.body \in {"json", "empty"} /\ fn.status \in 200..299)
        /\ fn.exc => fn.res = "AdapterException: Request failed"
        /\ (~fn.exc /\ fn.body = "garbage")
              => fn.res = "AdapterException: Decoding JSON failed"
        /\ (fn.status <= 199 \/ fn.status >= 300) => fn.res \in AdapterExceptions

\* Adapter.do has returned a RequestResult for a response with no body
C18_Witness ==
    fn.op = "do" /\ fn.pc = "done" /\ fn.body = "empty" /\ fn.res = "RequestResult"

\* C19 as stated: a call without page_offset that has returned asked for the
\* pages 0 .. total-1, in order and each once, and returns their items in
\* that order; a call with page_offset = p asked once, for page p
C19_AsStated ==
    (fn.op = "list" /\ fn.pc = "done") =>
        IF fn.paginate
        THEN /\ fn.requested = [i \in 1..fn.total |-> i - 1]
             /\ fn.res = [i \in 1..fn.total |-> i - 1]
        ELSE fn.requested = <<fn.offset>>

\* The pages a call without page_offset asks for: page 0 always, since the
\* number of pages is known from the first answer only
PagesAsked(total) == IF total = 0 THEN 1 ELSE total

\* C19: a call without page_offset asks for page 0 and then for every further
\* page below total-pages, in order and each once, never for more, and
\* returns the items of the pages in page order; a call with page_offset = p
\* asks once, for page p
C19_Pagination ==
    fn.op = "list" =>
        /\ Len(fn.requested) <= PagesAsked(fn.total)
        /\ fn.pc = "done" =>
            IF fn.paginate
            THEN /\ fn.requested = [i \in 1..PagesAsked(fn.total) |-> i - 1]
                 /\ fn.res = [i \in 1..fn.total |-> i - 1]
            ELSE fn.requested = <<fn.offset>>

\* A call without page_offset has returned the items of three pages
C19_Witness ==
    /\ fn.op = "list"
    /\ fn.pc = "done"
    /\ fn.paginate
    /\ fn.total = 3
    /\ fn.res = <<0, 1, 2>>

\* C20: on a DXLINK connection the first frame written is SETUP; an AUTH
\* frame is written only by the handling of a received SETUP frame; a
\* CHANNEL_REQUEST frame is written only after an AUTH_STATE frame with state
\* AUTHORIZED has been received
C20_SendOrder ==
    [][(variant = "DXLINK" /\ Sends) =>
          /\ out = NoOut => out'.type = "SETUP"
          /\ out'.type = "AUTH" =>
                \E f \in DxFrames : f.type = "SETUP" /\ OnMessage(f)
          /\ out'.type = "CHANNEL_REQUEST" => seenAuth']_vars

\* SETUP was answered by AUTH, and after the authorization the last channel
\* has been requested
C20_Witness ==
    /\ variant = "DXLINK"
    /\ authPhase = "sent"
    /\ seenAuth
    /\ out.type = "CHANNEL_REQUEST"
    /\ toCreate = <<>>

\* The position of a channel in its lifecycle: no state yet, REQUEST, OPENED,
\* CONFIG
Rank(state) ==
    CASE state = "NONE" -> 0
      [] state = "REQUEST" -> 1
      [] state = "OPENED" -> 2
      [] state = "CONFIG" -> 3
      [] OTHER -> 4

\* The step ends the handling of AUTH_STATE AUTHORIZED: the last channel was
\* requested and the keep-alive task is created
AuthorizedProcessed == connect = "creating" /\ toCreate = <<>> /\ ResumeAuthorized

\* C21: when AUTH_STATE AUTHORIZED has been processed every channel of the
\* registry (QUOTE, PROFILE, SUMMARY, TRADE, GREEKS) is REQUEST, so its
\* CHANNEL_REQUEST was written, and a channel leaves REQUEST only by the
\* handling of the CHANNEL_OPENED frame of that channel
C21_AllChannelsRequested ==
    [][/\ AuthorizedProcessed => \A c \in ChannelIds : channels'[c].state = "REQUEST"
       /\ \A c \in ChannelIds :
            (channels[c].state = "REQUEST" /\ channels'[c].state # "REQUEST")
                => OnMessage(Frame("CHANNEL_OPENED", FALSE, c, "", 0))]_vars

\* C22: the lifecycle state of a channel never moves backwards along
\* REQUEST -> OPENED -> CONFIG, whatever frames arrive
C22_StateMovesForward ==
    [][\A c \in ChannelIds : Rank(channels'[c].state) >= Rank(channels[c].state)]_vars

\* C23: once close() has completed every channel of the registry is
\* CANCELLED (and, being an invariant of every later state, stays so)
C23_CancelledAfterClose ==
    (variant = "DXLINK" /\ closed /\ caller.res = "ok")
        => \A c \in ChannelIds : channels[c].state = "CANCELLED"

\* A step of the caller task in subscribe_event or close
CallerStep ==
    \/ \E ev \in {"Quote", "Trade", "Greeks"} : CallSubscribeEvent(ev)
    \/ SubscribeSend
    \/ SubscribeRecord
    \/ CallClose
    \/ CloseStep

\* A step of the dispatch loop that handles an inbound frame
DispatchStep == (\E f \in DxFrames : OnMessage(f)) \/ ResumeAuthorized

\* C24: a step of subscribe_event or close leaves the lifecycle state of
\* every channel unchanged, and the handling of an inbound frame leaves the
\* recorded symbols of every channel unchanged
C24_WritersOfRegistry ==
    [][/\ CallerStep =>
            \A c \in ChannelIds : channels'[c].state = channels[c].state
       /\ DispatchStep =>
            \A c \in ChannelIds : channels'[c].symbols = channels[c].symbols]_vars

\* A caller has recorded symbols on the QUOTE channel, whose state the
\* dispatch loop has then moved on
C24_Witness ==
    /\ channels[QUOTE_CH].symbols = Symbols
    /\ caller.res = "ok"
    /\ channels[QUOTE_CH].state = "CONFIG"

\* C25: on a DataStreamer a step adds at most one to the counter and never
\* lowers it (one call of _next_id at a time); every frame written
\* carries the value its own call of _next_id wrote to the counter, which is
\* one above the counter before the call and above the id of the frame
\* written before it; the first frame, the handshake, carries id 1
C25_NextIdDistinct ==
    [][variant = "LEGACY" =>
          /\ counter' \in {counter, counter + 1}
          /\ Sends =>
                /\ counter' = counter + 1
                /\ out'.id = counter'
                /\ out'.id > out.id
                /\ out = NoOut => (out'.type = HANDSHAKE /\ out'.id = 1)]_vars

\* The handshake, a heartbeat and a subscription of the caller have drawn
\* their ids, the heartbeat task and the caller in either order
C25_Witness ==
    /\ variant = "LEGACY"
    /\ out.by = "keepalive"
    /\ out.id = 3
    /\ caller.calls = 1
    /\ caller.res = "ok"

\* C26: when the transport closes or fails, the dispatch loop ends: the
\* connect task terminates and does not read the connection again
C26_DispatchEndsWithTransport ==
    [][(ConnectionClosed \/ TransportError) => connect' = "dead"]_vars

\* close() has been called
CloseCalled == closed \/ caller.pc = "closing"

\* A keep-alive task writes its frame
KeepAliveWrites == Sends /\ out'.by = "keepalive"

\* C27: on a transport that stays up, a client that is authorized and whose
\* close() is not called has a keep-alive frame written again and again
\* (DataStreamer: until the ids of the model are used up), whatever frames
\* arrive in between
C27_KeepAliveKeepsSending ==
    \/ []<><<KeepAliveWrites>>_vars
    \/ []<>(~authorized \/ CloseCalled \/ (variant = "LEGACY" /\ counter = MaxId))

\* C28: on a DataStreamer only a message of the data channel is put on the
\* queue of listen() and only a message of the time-series channel on the
\* queue of listen_candle(); listen() takes from its own queue only, and so
\* does listen_candle(); a message of any other channel (a subscription
\* acknowledgement) is put on neither queue
C28_QueuesIndependent ==
    [][variant = "LEGACY" =>
          /\ Len(queue') > Len(queue) =>
                \E f \in LegacyFrames : f.type = DATA /\ LegacyDispatch(f)
          /\ Len(queueCandle') > Len(queueCandle) =>
                \E f \in LegacyFrames : f.type = CANDLE /\ LegacyDispatch(f)
          /\ (\E f \in LegacyFrames : f.type \notin {DATA, CANDLE} /\ LegacyDispatch(f))
                => UNCHANGED <<queue, queueCandle>>
          /\ Listen("c1") => UNCHANGED queueCandle
          /\ Listen("c2") => UNCHANGED queue
          /\ lastYield' # lastYield =>
                \/ Listen("c1") /\ lastYield'.kind # "Candle"
                \/ Listen("c2") /\ lastYield'.kind = "Candle"]_vars

\* A message of each channel went through its own queue: listen() has taken
\* the data message and listen_candle() the time-series message
C28_Witness ==
    /\ variant = "LEGACY"
    /\ ndata = 2
    /\ queue = <<>>
    /\ queueCandle = <<>>
    /\ \A c \in Consumers : consumer[c].st = "ended"

\* C29: whenever DXLinkStreamer.create() has returned, each of the QUOTE,
\* PROFILE, SUMMARY and TRADE channels has a lifecycle state (its
\* CHANNEL_REQUEST was issued) and the keep-alive task has been created
C29_SetupCompleteAtReturn ==
    (variant = "DXLINK" /\ createSt = "returned") =>
        /\ \A e \in DOMAIN EVENTTYPE_CHANNEL : channels[EVENTTYPE_CHANNEL[e]].state # "NONE"
        /\ keepAlive # <<>>

\* C30: at most one keep-alive task of a client is running at any time, and
\* none is running once close() has cancelled the tasks
C30_OneKeepAlive ==
    /\ Cardinality({i \in 1..Len(keepAlive) : keepAlive[i] = "running"}) <= 1
    /\ closed => \A i \in 1..Len(keepAlive) : keepAlive[i] # "running"

====
